---- MODULE Spec2Model ----
(***************************************************************************)
(* Load shapes of the Sock Shop load generator (load-testing/src) and the  *)
(* tick loop that drives them.                                             *)
(*                                                                         *)
(* Each LoadTestShape class is an object whose attributes are assigned in  *)
(* __init__ and whose tick() maps the elapsed run time to a directive      *)
(* (user_count, spawn_rate) or to None.  The attributes are the record     *)
(* `self`; a directive is the tuple <<user_count, spawn_rate>> and None is *)
(* the empty tuple.                                                        *)
(*                                                                         *)
(* Elapsed time is counted in whole seconds.  RampLoad.tick computes its   *)
(* population in double precision, int(min + (max - min) * (t / d)); on    *)
(* the whole seconds 0..600 (and on the quarter seconds between them) the  *)
(* double-precision result equals the truncated exact quotient, which is   *)
(* what RampValue computes.                                                *)
(***************************************************************************)
EXTENDS Integers, Sequences, FiniteSets, TLC

VARIABLES
    shape,      \* the LoadTestShape class of the run
    self,       \* the attributes __init__ assigned to the shape object
    run_time,   \* get_run_time(): seconds since the run started
    directive,  \* what the last tick() returned
    live,       \* number of live users
    live_before,\* the live count the last reconcile call started from
    ticks,      \* number of reconcile calls so far, counted up to MaxTicks
    pc,         \* position of the tick loop: "tick", "reconcile", "sleep",
                \* "stopping" (reconcile awaits the exit of the users), "done"
    upc,        \* position of a user's loop: "wait", "select", "invoke",
                \* "check", "exited"
    session,    \* the user's session_id, cart_items, has_items_in_cart
    twin,       \* the same attributes of a second user that draws the same
                \* random values and gets responses of its own
    task,       \* the task selected in the user's current cycle
    sent,       \* the requests the user issued in its current cycle
    twin_sent,  \* the requests the second user issued in that cycle
    outcome,    \* the status and the outcome recorded for the user's last
                \* request, <<>> before the first
    stop_flag,  \* the user has been signalled to stop
    cycles      \* number of cycles the user has run, at most MaxCycles

\* the variables of the tick loop, and those of the user's loop
ovars == <<shape, self, run_time, directive, live, live_before, ticks, pc>>
uvars == <<upc, session, twin, task, sent, twin_sent, outcome, stop_flag, cycles>>
vars == <<ovars, uvars>>

\* ---------------------------------------------------------------- bounds
\* Longest time between two ticks of the loop, in seconds.
MaxAdvance == 3
\* Largest population a run may start from in SpecReconcile.
MaxLive == 320
\* Latest elapsed time of a run, and the latest the formulas look ahead to.
MaxTime == 610
\* The reconcile calls of a run are counted up to this number.
MaxTicks == 12
\* Number of cycles a user's loop is followed for.
MaxCycles == 2

\* ------------------------------------------------------------- directives
None == <<>>

Min(a, b) == IF a <= b THEN a ELSE b

\* Python's int() of the rational num / den (den > 0): truncation toward zero.
PyInt(num, den) == IF num >= 0 THEN num \div den ELSE -((-num) \div den)

Shapes == {"constant", "step", "spike", "ramp"}

\* ------------------------------------------------------------ ConstantLoad
ConstantLoad_init ==
    [user_count |-> 50, spawn_rate |-> 5, test_duration |-> 600]

\* tick without the test of test_duration.
ConstantLoad_tick_forever(obj, t) ==
    <<obj.user_count, obj.spawn_rate>>

\* tick with the duration test written <=.
ConstantLoad_tick_le(obj, t) ==
    IF t <= obj.test_duration
    THEN <<obj.user_count, obj.spawn_rate>>
    ELSE None

ConstantLoad_tick(obj, t) ==
    IF t < obj.test_duration
    THEN <<obj.user_count, obj.spawn_rate>>
    ELSE None

\* ---------------------------------------------------------------- StepLoad
StepLoad_init ==
    [steps |-> << <<0, 100, 10>>, <<120, 200, 20>>, <<240, 100, 10>>,
                  <<360, 300, 30>>, <<480, 50, 5>> >>,
     test_duration |-> 600]

\* The for loop over self.steps from its i-th element on: a reached step
\* replaces current_step, the first step not yet reached breaks the loop.
RECURSIVE StepScan(_, _, _, _)
StepScan(steps, i, t, current_step) ==
    IF i > Len(steps) THEN current_step
    ELSE IF t >= steps[i][1]
         THEN StepScan(steps, i + 1, t, <<steps[i][2], steps[i][3]>>)
         ELSE current_step

\* tick whose loop tests run_time > start_time.
RECURSIVE StepScan_strict(_, _, _, _)
StepScan_strict(steps, i, t, current_step) ==
    IF i > Len(steps) THEN current_step
    ELSE IF t > steps[i][1]
         THEN StepScan_strict(steps, i + 1, t, <<steps[i][2], steps[i][3]>>)
         ELSE current_step

StepLoad_tick_strict(obj, t) ==
    IF t >= obj.test_duration
    THEN None
    ELSE StepScan_strict(obj.steps, 1, t, <<50, 5>>)

StepLoad_tick(obj, t) ==
    IF t >= obj.test_duration
    THEN None
    ELSE StepScan(obj.steps, 1, t, <<50, 5>>)

\* --------------------------------------------------------------- SpikeLoad
\* __init__ whose second spike starts at 80, inside the first window.
SpikeLoad_init_overlap ==
    [spikes |-> << <<60, 30, 15>>, <<80, 30, 50>>, <<300, 30, 100>>,
                   <<420, 30, 25>> >>,
     base_users |-> 10, base_spawn_rate |-> 2, test_duration |-> 600]

SpikeLoad_init ==
    [spikes |-> << <<60, 30, 15>>, <<180, 30, 50>>, <<300, 30, 100>>,
                   <<420, 30, 25>> >>,
     base_users |-> 10, base_spawn_rate |-> 2, test_duration |-> 600]

\* The for loop over self.spikes from its i-th element on: the first window
\* that contains t returns; when none does the base load is returned.
RECURSIVE SpikeScan(_, _, _)
SpikeScan(obj, i, t) ==
    IF i > Len(obj.spikes) THEN <<obj.base_users, obj.base_spawn_rate>>
    ELSE IF obj.spikes[i][1] <= t /\ t < obj.spikes[i][1] + obj.spikes[i][2]
         THEN <<obj.spikes[i][3], 20>>
         ELSE SpikeScan(obj, i + 1, t)

\* tick whose windows include their end, [start, start + duration].
RECURSIVE SpikeScan_closed(_, _, _)
SpikeScan_closed(obj, i, t) ==
    IF i > Len(obj.spikes) THEN <<obj.base_users, obj.base_spawn_rate>>
    ELSE IF obj.spikes[i][1] <= t /\ t <= obj.spikes[i][1] + obj.spikes[i][2]
         THEN <<obj.spikes[i][3], 20>>
         ELSE SpikeScan_closed(obj, i + 1, t)

SpikeLoad_tick_closed(obj, t) ==
    IF t >= obj.test_duration
    THEN None
    ELSE SpikeScan_closed(obj, 1, t)

SpikeLoad_tick(obj, t) ==
    IF t >= obj.test_duration
    THEN None
    ELSE SpikeScan(obj, 1, t)

\* ---------------------------------------------------------------- RampLoad
RampLoad_init ==
    [ramp_up_duration |-> 300, peak_duration |-> 120,
     ramp_down_duration |-> 180, min_users |-> 10, max_users |-> 150,
     test_duration |-> 600]

\* round() in place of int(): the nearest integer, halves upwards.
RampValue_round(from, to, dt, duration) ==
    PyInt(2 * (from * duration + (to - from) * dt) + duration, 2 * duration)

\* int(from + (to - from) * (dt / duration))
RampValue(from, to, dt, duration) ==
    PyInt(from * duration + (to - from) * dt, duration)

\* tick whose ramp-up phase uses the ramp-down expression.
RampLoad_tick_swapped(obj, t) ==
    IF t >= obj.test_duration THEN None
    ELSE IF t <= obj.ramp_up_duration
    THEN <<RampValue(obj.max_users, obj.min_users, t, obj.ramp_up_duration), 10>>
    ELSE IF t <= obj.ramp_up_duration + obj.peak_duration
    THEN <<obj.max_users, 5>>
    ELSE IF t <= obj.ramp_up_duration + obj.peak_duration + obj.ramp_down_duration
    THEN <<RampValue(obj.max_users, obj.min_users,
                     t - (obj.ramp_up_duration + obj.peak_duration),
                     obj.ramp_down_duration), 8>>
    ELSE None

\* tick whose ramp-down progress is run_time / ramp_down_duration, without
\* subtracting ramp_down_start.
RampLoad_tick_downfromstart(obj, t) ==
    IF t >= obj.test_duration THEN None
    ELSE IF t <= obj.ramp_up_duration
    THEN <<RampValue(obj.min_users, obj.max_users, t, obj.ramp_up_duration), 10>>
    ELSE IF t <= obj.ramp_up_duration + obj.peak_duration
    THEN <<obj.max_users, 5>>
    ELSE IF t <= obj.ramp_up_duration + obj.peak_duration + obj.ramp_down_duration
    THEN <<RampValue(obj.max_users, obj.min_users, t,
                     obj.ramp_down_duration), 8>>
    ELSE None

\* tick without the test of test_duration, ending by its last else alone.
RampLoad_tick_nocheck(obj, t) ==
    IF t <= obj.ramp_up_duration
    THEN <<RampValue(obj.min_users, obj.max_users, t, obj.ramp_up_duration), 10>>
    ELSE IF t <= obj.ramp_up_duration + obj.peak_duration
    THEN <<obj.max_users, 5>>
    ELSE IF t <= obj.ramp_up_duration + obj.peak_duration + obj.ramp_down_duration
    THEN <<RampValue(obj.max_users, obj.min_users,
                     t - (obj.ramp_up_duration + obj.peak_duration),
                     obj.ramp_down_duration), 8>>
    ELSE None

RampLoad_tick(obj, t) ==
    IF t >= obj.test_duration THEN None
    ELSE IF t <= obj.ramp_up_duration
    THEN <<RampValue(obj.min_users, obj.max_users, t, obj.ramp_up_duration), 10>>
    ELSE IF t <= obj.ramp_up_duration + obj.peak_duration
    THEN <<obj.max_users, 5>>
    ELSE IF t <= obj.ramp_up_duration + obj.peak_duration + obj.ramp_down_duration
    THEN <<RampValue(obj.max_users, obj.min_users,
                     t - (obj.ramp_up_duration + obj.peak_duration),
                     obj.ramp_down_duration), 8>>
    ELSE None

\* ------------------------------------------------------------ construction
Construct(s) ==
    CASE s = "constant" -> ConstantLoad_init
      [] s = "step"     -> StepLoad_init
      [] s = "spike"    -> SpikeLoad_init
      [] s = "ramp"     -> RampLoad_init

\* tick() of the shape class s
Tick(s, obj, t) ==
    CASE s = "constant" -> ConstantLoad_tick(obj, t)
      [] s = "step"     -> StepLoad_tick(obj, t)
      [] s = "spike"    -> SpikeLoad_tick(obj, t)
      [] s = "ramp"     -> RampLoad_tick(obj, t)

\* ------------------------------------------------------------ population
\* reconcile that closes the whole deficit or surplus in one call.
Reconcile_jump(n, d) ==
    IF d = None THEN 0 ELSE d[1]

\* reconcile that spawns spawn_rate users whatever the deficit is.
Reconcile_overshoot(n, d) ==
    IF d = None THEN 0
    ELSE IF n < d[1] THEN n + d[2]
    ELSE IF n > d[1] THEN n - Min(d[2], n - d[1])
    ELSE n

\* reconcile that spawns towards the target but never stops a surplus.
Reconcile_nostop(n, d) ==
    IF d = None THEN 0
    ELSE IF n < d[1] THEN n + Min(d[2], d[1] - n)
    ELSE n

\* reconcile(directive): the live count after one call.
Reconcile(n, d) ==
    IF d = None THEN 0
    ELSE IF n < d[1] THEN n + Min(d[2], d[1] - n)
    ELSE IF n > d[1] THEN n - Min(d[2], n - d[1])
    ELSE n

\* k consecutive reconcile calls with the same directive d.  The k calls are
\* split into the first k \div 2 and the rest; the count m after the first
\* half is computed (it is always an integer) before the second half starts,
\* so the evaluation nests only logarithmically deep in k.
RECURSIVE ReconcileN(_, _, _)
ReconcileN(n, d, k) ==
    IF k = 0 THEN n
    ELSE IF k = 1 THEN Reconcile(n, d)
    ELSE LET m == ReconcileN(n, d, k \div 2)
         IN  IF m \in Int THEN ReconcileN(m, d, k - (k \div 2)) ELSE m

\* ------------------------------------------------------------ SockShopUser
item_ids ==
    << "a0eebc99-9c0b-4ef8-bb6d-6bb9bd380a11",
       "3395a43e-5d8d-4d79-ac8c-0d58e637d5e8",
       "03fef6c8-7c4f-4f69-8a7d-6e48d4c1db8e",
       "d3588630-ad8e-49df-b6f8-5e4f3c0e5e2e",
       "510a0d7e-8e83-4193-b483-e27e9ddc34d8",
       "808a2de1-1aaa-4c25-a9b9-79a93b77c087",
       "819e1fbf-a459-4c89-9e03-9b5d1a5fc1b0",
       "zzz4f044-ec42-4f2b-a2d8-7e4b3f4a5c6d" >>

tags == <<"red", "blue", "black", "white", "brown", "green", "gray", "purple">>

\* wait_time = constant(2) and timeout = 2, the class attributes
wait_time == 2
timeout == 2

\* on_start: session_id is "session_" and random.randint(1000, 9999); sid is
\* that number.
on_start(sid) ==
    [session_id |-> <<"session_", sid>>, cart_items |-> <<>>,
     has_items_in_cart |-> FALSE]

\* The numbers randint draws in the model: both ends of its range.
SessionIds == {1000, 9999}

\* self.client.get(url, **kwargs) and self.client.post(url, **kwargs): the
\* request a handler issues, with the keyword arguments it passes.  A url
\* is the tuple of the parts of its f-string.
Get(url, kwargs) == [method |-> "GET", url |-> url, kwargs |-> kwargs]
Post(url, kwargs) == [method |-> "POST", url |-> url, kwargs |-> kwargs]

\* The handlers.  sess is the user's session, choice the index random.choice
\* draws, status the status_code of the response (0 when the request got no
\* response: a network error or a timeout).  Each gives the requests it
\* issued and the session it leaves.
browse_home(sess, choice, status) ==
    [requests |-> <<Get(<<"/">>, [name |-> "browse_home"])>>,
     session |-> sess]

browse_catalogue(sess, choice, status) ==
    [requests |-> <<Get(<<"/catalogue">>, [name |-> "browse_catalogue"])>>,
     session |-> sess]

browse_category(sess, choice, status) ==
    [requests |-> <<Get(<<"/category.html?tags=", tags[choice]>>,
                        [name |-> "browse_category"])>>,
     session |-> sess]

view_item(sess, choice, status) ==
    [requests |-> <<Get(<<"/detail.html?id=", item_ids[choice]>>,
                        [name |-> "view_item"])>>,
     session |-> sess]

\* add_to_cart that posts again when the first response is not 200.
add_to_cart_retry(sess, choice, status) ==
    LET req == Post(<<"/cart">>,
                    [json |-> [id |-> item_ids[choice], quantity |-> 1],
                     name |-> "add_to_cart"])
    IN  [requests |-> IF status = 200 THEN <<req>> ELSE <<req, req>>,
         session |-> IF status = 200
                     THEN [sess EXCEPT !.cart_items = Append(@, item_ids[choice]),
                                       !.has_items_in_cart = TRUE]
                     ELSE sess]

add_to_cart(sess, choice, status) ==
    [requests |-> <<Post(<<"/cart">>,
                         [json |-> [id |-> item_ids[choice], quantity |-> 1],
                          name |-> "add_to_cart"])>>,
     session |-> IF status = 200
                 THEN [sess EXCEPT !.cart_items = Append(@, item_ids[choice]),
                                   !.has_items_in_cart = TRUE]
                 ELSE sess]

view_cart(sess, choice, status) ==
    [requests |-> <<Get(<<"/basket.html">>, [name |-> "view_cart"])>>,
     session |-> sess]

\* checkout that is attempted only with items in the cart.
checkout_ifcart(sess, choice, status) ==
    [requests |-> IF sess.has_items_in_cart
                  THEN <<Get(<<"/customer-orders.html">>, [name |-> "checkout"])>>
                  ELSE <<>>,
     session |-> sess]

checkout(sess, choice, status) ==
    [requests |-> <<Get(<<"/customer-orders.html">>, [name |-> "checkout"])>>,
     session |-> sess]

\* The @task(weight) decorators, in the order of the class body.
Weights ==
    << <<"browse_home", 25>>, <<"browse_catalogue", 20>>,
       <<"browse_category", 20>>, <<"view_item", 20>>,
       <<"add_to_cart", 10>>, <<"view_cart", 8>>, <<"checkout", 4>> >>

\* The task list of the class: each task repeated weight times.  A cycle
\* draws one element of it uniformly.
RECURSIVE Repeat(_, _)
Repeat(x, n) == IF n = 0 THEN <<>> ELSE <<x>> \o Repeat(x, n - 1)

RECURSIVE Expand(_, _)
Expand(w, i) ==
    IF i > Len(w) THEN <<>> ELSE Repeat(w[i][1], w[i][2]) \o Expand(w, i + 1)

tasks == Expand(Weights, 1)

\* The handler of task name is run.
RunTask(name, sess, choice, status) ==
    CASE name = "browse_home"      -> browse_home(sess, choice, status)
      [] name = "browse_catalogue" -> browse_catalogue(sess, choice, status)
      [] name = "browse_category"  -> browse_category(sess, choice, status)
      [] name = "view_item"        -> view_item(sess, choice, status)
      [] name = "add_to_cart"      -> add_to_cart(sess, choice, status)
      [] name = "view_cart"        -> view_cart(sess, choice, status)
      [] name = "checkout"         -> checkout(sess, choice, status)

\* Status codes of a response: success, a server error, no response.
Statuses == {200, 500, 0}

\* A user that is not followed: the state its variables keep in the
\* specifications of the tick loop.
UserIdle ==
    /\ upc = "wait"
    /\ session = on_start(1000)
    /\ twin = on_start(1000)
    /\ task = ""
    /\ sent = <<>>
    /\ twin_sent = <<>>
    /\ outcome = <<>>
    /\ stop_flag = FALSE
    /\ cycles = 0

\* ------------------------------------------------------------------ actions
Init ==
    /\ shape \in Shapes
    /\ self = Construct(shape)
    /\ run_time = 0
    /\ directive = None
    /\ live = 0
    /\ live_before = live
    /\ ticks = 0
    /\ pc = "tick"
    /\ UserIdle

ConstantTick ==
    /\ pc = "tick" /\ shape = "constant"
    /\ directive' = ConstantLoad_tick(self, run_time)
    /\ pc' = "reconcile"
    /\ UNCHANGED <<shape, self, run_time, live, live_before, ticks, uvars>>

\* tick that keeps a cursor: it drops the steps it has reached from self.steps.
StepTick_consume ==
    /\ pc = "tick" /\ shape = "step"
    /\ directive' = StepLoad_tick(self, run_time)
    /\ self' = [self EXCEPT !.steps =
                    SelectSeq(@, LAMBDA st : st[1] > run_time)]
    /\ pc' = "reconcile"
    /\ UNCHANGED <<shape, run_time, live, live_before, ticks, uvars>>

StepTick ==
    /\ pc = "tick" /\ shape = "step"
    /\ directive' = StepLoad_tick(self, run_time)
    /\ pc' = "reconcile"
    /\ UNCHANGED <<shape, self, run_time, live, live_before, ticks, uvars>>

SpikeTick ==
    /\ pc = "tick" /\ shape = "spike"
    /\ directive' = SpikeLoad_tick(self, run_time)
    /\ pc' = "reconcile"
    /\ UNCHANGED <<shape, self, run_time, live, live_before, ticks, uvars>>

RampTick ==
    /\ pc = "tick" /\ shape = "ramp"
    /\ directive' = RampLoad_tick(self, run_time)
    /\ pc' = "reconcile"
    /\ UNCHANGED <<shape, self, run_time, live, live_before, ticks, uvars>>

\* reconcile with a directive (target, spawn_rate)
DoReconcile ==
    /\ pc = "reconcile" /\ directive # None
    /\ live' = Reconcile(live, directive)
    /\ live_before' = live
    /\ ticks' = Min(ticks + 1, MaxTicks)
    /\ pc' = "sleep"
    /\ UNCHANGED <<shape, self, run_time, directive, uvars>>

\* reconcile with Terminal: every live user is signalled to stop, and the
\* call awaits their exit.
StopAll ==
    /\ pc = "reconcile" /\ directive = None
    /\ live_before' = live
    /\ ticks' = Min(ticks + 1, MaxTicks)
    /\ pc' = "stopping"
    /\ UNCHANGED <<shape, self, run_time, directive, live, uvars>>

\* A signalled user finds its stop flag set and leaves its loop.
UserExit ==
    /\ pc = "stopping" /\ live > 0
    /\ live' = live - 1
    /\ UNCHANGED <<shape, self, run_time, directive, live_before, ticks, pc, uvars>>

\* reconcile with Terminal returns once no user is left, and the run ends.
Return ==
    /\ pc = "stopping" /\ live = Reconcile(live_before, directive)
    /\ pc' = "done"
    /\ UNCHANGED <<shape, self, run_time, directive, live, live_before, ticks, uvars>>

Sleep ==
    /\ pc = "sleep"
    /\ \E d \in 1..MaxAdvance :
          /\ run_time + d <= MaxTime
          /\ run_time' = run_time + d
    /\ pc' = "tick"
    /\ UNCHANGED <<shape, self, directive, live, live_before, ticks, uvars>>

\* The steps of the tick loop.
Orchestrator ==
    \/ ConstantTick
    \/ StepTick
    \/ SpikeTick
    \/ RampTick
    \/ DoReconcile
    \/ StopAll
    \/ Return
    \/ Sleep

Next ==
    \/ Orchestrator
    \/ UserExit

Spec == Init /\ [][Next]_vars

\* ------------------------------------------------------------ a user's loop
\* Two users are spawned; each runs on_start.
InitUser ==
    /\ shape = "constant"
    /\ self = Construct(shape)
    /\ run_time = 0
    /\ directive = None
    /\ live = 0
    /\ live_before = live
    /\ ticks = 0
    /\ pc = "tick"
    /\ upc = "wait"
    /\ \E sid \in SessionIds : session = on_start(sid)
    /\ \E sid \in SessionIds : twin = on_start(sid)
    /\ task = ""
    /\ sent = <<>>
    /\ twin_sent = <<>>
    /\ outcome = <<>>
    /\ stop_flag = FALSE
    /\ cycles = 0

\* The wait interval before an action.
UserWait ==
    /\ upc = "wait"
    /\ upc' = "select"
    /\ sent' = <<>>
    /\ twin_sent' = <<>>
    /\ UNCHANGED <<session, twin, task, outcome, stop_flag, cycles, ovars>>

\* One task is drawn from the task list.
UserSelect ==
    /\ upc = "select"
    /\ \E r \in 1..Len(tasks) : task' = tasks[r]
    /\ upc' = "invoke"
    /\ UNCHANGED <<session, twin, sent, twin_sent, outcome, stop_flag, cycles,
                   ovars>>

\* The handler of the selected task runs, in both users with the same
\* random choice; each user gets a response of its own.  The outcome of the
\* request is recorded: a success for status 200, a failure otherwise.
UserInvoke ==
    /\ upc = "invoke"
    /\ \E choice \in 1..Len(item_ids), status \in Statuses, twin_status \in Statuses :
          LET mine == RunTask(task, session, choice, status)
              other == RunTask(task, twin, choice, twin_status)
          IN  /\ sent' = mine.requests
              /\ session' = mine.session
              /\ twin_sent' = other.requests
              /\ twin' = other.session
              /\ outcome' = <<status, IF status = 200 THEN "success"
                                                      ELSE "failure">>
    /\ cycles' = cycles + 1
    /\ upc' = "check"
    /\ UNCHANGED <<task, stop_flag, ovars>>

\* The stop flag is checked once per cycle: the loop exits or repeats.
UserCheck ==
    /\ upc = "check"
    /\ \/ stop_flag /\ upc' = "exited"
       \/ ~stop_flag /\ cycles < MaxCycles /\ upc' = "wait"
    /\ UNCHANGED <<session, twin, task, sent, twin_sent, outcome, stop_flag,
                   cycles, ovars>>

\* The population manager signals the user to stop.
SignalStop ==
    /\ ~stop_flag /\ upc # "exited"
    /\ stop_flag' = TRUE
    /\ UNCHANGED <<upc, session, twin, task, sent, twin_sent, outcome, cycles,
                   ovars>>

NextUser ==
    \/ UserWait
    \/ UserSelect
    \/ UserInvoke
    \/ UserCheck
    \/ SignalStop

SpecUser == InitUser /\ [][NextUser]_vars

\* The tick loop and the loops of the users, each scheduled fairly.
FairSpec == Init /\ [][Next]_vars /\ WF_vars(Orchestrator) /\ WF_vars(UserExit)

\* The tick loop started from any population: reconcile as a function of the
\* live count and the directive.
InitAnyLive ==
    /\ shape \in Shapes
    /\ self = Construct(shape)
    /\ run_time = 0
    /\ directive = None
    /\ live \in 0..MaxLive
    /\ live_before = live
    /\ ticks = 0
    /\ pc = "tick"
    /\ UserIdle

SpecReconcile == InitAnyLive /\ [][Next]_vars

\* The schedule of a shape is the literal its __init__ assigns; nothing else
\* of the class reads or tests it before tick does.  Configs(s) is the
\* shipped literal of class s together with edited ones: a constant load
\* with spawn rate 0, steps whose start times are out of order, spikes whose
\* first two windows overlap.
Configs(s) ==
    CASE s = "constant" ->
           {ConstantLoad_init, [ConstantLoad_init EXCEPT !.spawn_rate = 0]}
      [] s = "step" ->
           {StepLoad_init,
            [StepLoad_init EXCEPT !.steps =
                << <<0, 100, 10>>, <<240, 100, 10>>, <<120, 200, 20>>,
                   <<360, 300, 30>>, <<480, 50, 5>> >>]}
      [] s = "spike" ->
           {SpikeLoad_init,
            [SpikeLoad_init EXCEPT !.spikes =
                << <<60, 30, 15>>, <<80, 30, 50>>, <<300, 30, 100>>,
                   <<420, 30, 25>> >>]}
      [] s = "ramp" -> {RampLoad_init}

\* The tick loop over a shape constructed with any of these literals.
InitConfig ==
    /\ shape \in Shapes
    /\ self \in Configs(shape)
    /\ run_time = 0
    /\ directive = None
    /\ live = 0
    /\ live_before = live
    /\ ticks = 0
    /\ pc = "tick"
    /\ UserIdle

SpecConfig == InitConfig /\ [][Next]_vars

\* ------------------------------------------------------------------ claims
\* pc = "sleep" holds exactly after a reconcile call that was given a directive
\* (target, spawn_rate); pc = "reconcile" holds exactly when `directive` is
\* the result of tick() at `run_time`.

\* C1: one reconcile call with a directive (target, spawn_rate) changes the
\* live count by at most spawn_rate, upwards or downwards, whatever the
\* deficit or surplus is.
C1_RateBounded ==
    pc = "sleep" =>
        /\ live - live_before <= directive[2]
        /\ live_before - live <= directive[2]

\* A reconcile stopped exactly spawn_rate users and a surplus is left.
C1_Witness ==
    /\ pc = "sleep"
    /\ live_before - live = directive[2]
    /\ live > directive[1]

\* C2: a reconcile call that starts below the target never ends above it.
C2_NoOvershoot ==
    (pc = "sleep" /\ live_before < directive[1]) => live <= directive[1]

\* A reconcile spawned a deficit smaller than spawn_rate and stopped at the
\* target.
C2_Witness ==
    /\ pc = "sleep"
    /\ live_before < directive[1]
    /\ directive[1] - live_before < directive[2]
    /\ live = directive[1]

\* C3: at the exact start time of a phase tick returns the directive of the
\* phase that starts, in every shape: a step at its start_time, a spike
\* window at its spike_time, the base load at the end of a window, and for
\* the ramp the plateau at 300 and the ramp down at 420.
C3_BoundaryRule ==
    pc = "reconcile" =>
        /\ shape = "step" =>
              /\ \A i \in 1..Len(self.steps) :
                    run_time = self.steps[i][1] =>
                        directive = <<self.steps[i][2], self.steps[i][3]>>
              /\ run_time = 120 => directive = <<200, 20>>
        /\ shape = "spike" =>
              /\ \A i \in 1..Len(self.spikes) :
                    /\ run_time = self.spikes[i][1] =>
                          directive = <<self.spikes[i][3], 20>>
                    /\ run_time = self.spikes[i][1] + self.spikes[i][2] =>
                          directive = <<self.base_users, self.base_spawn_rate>>
              /\ run_time = 60 => directive = <<15, 20>>
              /\ run_time = 90 => directive = <<10, 2>>
        /\ shape = "ramp" =>
              /\ run_time = 300 => directive = <<150, 5>>
              /\ run_time = 420 => directive = <<150, 8>>

C5_SpikeIsolation ==
    (pc = "reconcile" /\ shape = "spike" /\ run_time < 600) =>
        LET inside == {i \in 1..Len(self.spikes) :
                          /\ self.spikes[i][1] <= run_time
                          /\ run_time < self.spikes[i][1] + self.spikes[i][2]}
        IN  /\ inside = {} => directive = <<10, 2>>
            /\ \A i \in inside : directive = <<self.spikes[i][3], 20>>
            /\ run_time \in 60..89 => directive = <<15, 20>>

\* The spike shape ticked in the last second of its first window.
C5_Witness ==
    /\ pc = "reconcile" /\ shape = "spike"
    /\ run_time = 89
    /\ directive = <<15, 20>>

\* C6: for 0 <= t <= 300 the ramp's population is floor(10 + 140 * t / 300),
\* the integer u with u <= 10 + 140 t / 300 < u + 1, and is at most 150.
C6_RampUpFormula ==
    (pc = "reconcile" /\ shape = "ramp" /\ run_time <= 300) =>
        /\ 300 * directive[1] <= 3000 + 140 * run_time
        /\ 3000 + 140 * run_time < 300 * (directive[1] + 1)
        /\ directive[1] <= 150

\* The ramp ticked at 299, where 10 + 140 * 299 / 300 = 149.53 is cut to 149.
C6_Witness ==
    /\ pc = "reconcile" /\ shape = "ramp"
    /\ run_time = 299
    /\ directive[1] = 149

\* C7: over [0, 300] the ramp's population never decreases as t grows, it is
\* 10 at t = 0 and 150 at t = 300.
C7_RampMonotone ==
    (pc = "reconcile" /\ shape = "ramp" /\ run_time <= 300) =>
        /\ \A t1 \in 0..run_time :
              RampLoad_tick(self, t1)[1] <= directive[1]
        /\ run_time = 0 => directive[1] = 10
        /\ run_time = 300 => directive[1] = 150

\* The ramp ticked at the end of its ramp up.
C7_Witness ==
    /\ pc = "reconcile" /\ shape = "ramp"
    /\ run_time = 300
    /\ directive[1] = 150

\* C8: the constant shape returns (50, 5) for every t < 600 and None for
\* every t >= 600.
C8_Constant ==
    (pc = "reconcile" /\ shape = "constant") =>
        /\ run_time < 600 => directive = <<50, 5>>
        /\ run_time >= 600 => directive = None
        /\ \A t \in 600..MaxTime : ConstantLoad_tick(self, t) = None

\* The constant shape ticked at exactly 600.
C8_Witness ==
    /\ pc = "reconcile" /\ shape = "constant"
    /\ run_time = 600
    /\ directive = None

\* C9: step, spike and ramp return None exactly when t >= 600 (for the ramp
\* the sum of its three durations), so with elapsed time only growing no
\* directive follows a None and no None precedes t = 600.
C9_Terminal ==
    (pc = "reconcile" /\ shape \in {"step", "spike", "ramp"}) =>
        /\ directive = None <=> run_time >= 600
        /\ directive = None =>
              \A t \in run_time..MaxTime : Tick(shape, self, t) = None
        /\ shape = "ramp" =>
              self.ramp_up_duration + self.peak_duration
                  + self.ramp_down_duration = 600

\* The ramp ticked at exactly 600, the end of its ramp down.
C9_Witness ==
    /\ pc = "reconcile" /\ shape = "ramp"
    /\ run_time = 600
    /\ directive = None

\* A schedule is well formed when its start times strictly increase, its
\* spike windows are pairwise disjoint and its spawn rates are positive.
WellFormed(s, obj) ==
    CASE s = "constant" -> obj.spawn_rate > 0
      [] s = "step" ->
           /\ \A i \in 1..(Len(obj.steps) - 1) :
                 obj.steps[i][1] < obj.steps[i + 1][1]
           /\ \A i \in 1..Len(obj.steps) : obj.steps[i][3] > 0
      [] s = "spike" ->
           /\ \A i, j \in 1..Len(obj.spikes) :
                 i # j =>
                     \/ obj.spikes[i][1] + obj.spikes[i][2] <= obj.spikes[j][1]
                     \/ obj.spikes[j][1] + obj.spikes[j][2] <= obj.spikes[i][1]
           /\ obj.base_spawn_rate > 0
      [] s = "ramp" -> TRUE

C12_ConstantRun ==
    shape = "constant" =>
        /\ (ticks >= 10 /\ pc \in {"tick", "reconcile", "sleep"}) => live = 50
        /\ pc = "sleep" => run_time < 600
        /\ pc = "done" => (live = 0 /\ run_time >= 600)

\* The tenth reconcile call of a constant run raised the population from 45
\* to 50.
C12_Witness ==
    /\ shape = "constant" /\ pc = "sleep"
    /\ ticks = 10
    /\ live_before = 45 /\ live = 50

TaskNames == {Weights[i][1] : i \in 1..Len(Weights)}

\* C14: in every cycle one task of the table is selected and its handler
\* issues exactly one request, the one of that task; a request that fails
\* or times out is recorded as a failure, and the loop exits only when the
\* user has been signalled to stop.
C14_OneActionPerCycle ==
    /\ upc = "check" =>
          /\ task \in TaskNames
          /\ Len(sent) = 1
          /\ sent[1].kwargs.name = task
          /\ outcome[2] = "failure" <=> outcome[1] # 200
    /\ upc = "exited" => stop_flag

\* A request timed out, and the user, not signalled to stop, is in the wait
\* of its next cycle.
C14_Witness ==
    /\ upc = "wait" /\ cycles = 1
    /\ outcome = <<0, "failure">>
    /\ ~stop_flag

\* C15: every request a handler issues carries the timeout of the class,
\* which equals the wait interval.
C15_BoundedTimeout ==
    \A i \in 1..Len(sent) :
        /\ "timeout" \in DOMAIN sent[i].kwargs
        /\ sent[i].kwargs.timeout = timeout
        /\ timeout = wait_time

RECURSIVE SumWeights(_, _)
SumWeights(w, i) == IF i > Len(w) THEN 0 ELSE w[i][2] + SumWeights(w, i + 1)

\* The number of equally likely draws that select task name.
Draws(name) == Cardinality({r \in 1..Len(tasks) : tasks[r] = name})

\* C16: the weights of the seven tasks sum to 117, the denominator of the
\* draw a cycle makes: add_to_cart is drawn with probability 10/117 and
\* checkout with probability 4/117.
C16_WeightTable ==
    upc = "invoke" =>
        /\ task \in TaskNames
        /\ Len(Weights) = 7
        /\ SumWeights(Weights, 1) = 117
        /\ Len(tasks) = 117
        /\ Draws("add_to_cart") * 117 = 10 * Len(tasks)
        /\ Draws("checkout") * 117 = 4 * Len(tasks)

\* C18: two users that draw the same task and the same random choice issue
\* the same requests in every cycle, whatever their session_id, cart_items
\* and has_items_in_cart are.
C18_NonAdaptive ==
    sent = twin_sent

\* Two users whose sessions differ in all three attributes have both run
\* checkout.
C18_Witness ==
    /\ upc = "check" /\ task = "checkout"
    /\ session.session_id # twin.session_id
    /\ session.cart_items # twin.cart_items
    /\ session.has_items_in_cart # twin.has_items_in_cart
    /\ Len(sent) = 1 /\ sent = twin_sent

Abs(x) == IF x >= 0 THEN x ELSE -x

\* ceil(a / b) for a >= 0, b > 0
CeilDiv(a, b) == (a + b - 1) \div b

\* C11: from any live count L, with a directive (T, R) that stays the same,
\* ceil(|T - L| / R) consecutive reconcile calls bring the live count to T,
\* and every later call with that directive leaves it at T.
C11_Convergence ==
    (pc = "reconcile" /\ directive # None) =>
        LET k == CeilDiv(Abs(directive[1] - live), directive[2])
        IN  /\ ReconcileN(live, directive, k) = directive[1]
            /\ ReconcileN(live, directive, k + 1) = directive[1]
            /\ ReconcileN(live, directive, k + 2) = directive[1]

\* A directive whose target is more than two calls away, reached by the
\* last of the ceil(|T - L| / R) calls and not before.
C11_Witness ==
    /\ pc = "reconcile" /\ directive # None
    /\ Abs(directive[1] - live) > 2 * directive[2]
    /\ LET k == CeilDiv(Abs(directive[1] - live), directive[2])
       IN  /\ ReconcileN(live, directive, k) = directive[1]
           /\ ReconcileN(live, directive, k - 1) # directive[1]

\* C17: a tick call writes no attribute of the shape, and a second call at
\* the same elapsed time returns what the first returned.
C17_Idempotent ==
    [][pc = "tick" =>
          /\ self' = self
          /\ Tick(shape', self', run_time') = directive']_vars

\* A shape that has ticked after the start of the run and still has the
\* attributes its __init__ assigned.
C17_Witness ==
    /\ pc = "reconcile"
    /\ run_time >= 120
    /\ directive # None
    /\ self = Construct(shape)

\* C19: over 420 < t < 600 the ramp's population never increases as t grows,
\* stays within [10, 150], comes from 150 at t = 420 and is 10 at t = 599.
C19_RampDown ==
    (pc = "reconcile" /\ shape = "ramp" /\ run_time > 420 /\ run_time < 600) =>
        /\ directive[1] >= 10 /\ directive[1] <= 150
        /\ \A t1 \in 420..run_time :
              directive[1] <= RampLoad_tick(self, t1)[1]
        /\ RampLoad_tick(self, 420)[1] = 150
        /\ run_time = 599 => directive[1] = 10

\* The ramp ticked at 599, the last whole second before the end.
C19_Witness ==
    /\ pc = "reconcile" /\ shape = "ramp"
    /\ run_time = 599
    /\ directive = <<10, 8>>

\* C20: the shipped schedules are well formed: step start times strictly
\* increase, targets are >= 0 and spawn rates > 0, the spike windows are
\* [60,90), [180,210), [300,330), [420,450) and pairwise disjoint, every step
\* and window lies in [0, 600); so every directive has target >= 0 and
\* spawn rate > 0 (2 or 20 for the spike, 10, 5 or 8 for the ramp).
C20_ShippedSchedules ==
    /\ shape = "step" =>
          /\ \A i \in 1..(Len(self.steps) - 1) :
                self.steps[i][1] < self.steps[i + 1][1]
          /\ \A i \in 1..Len(self.steps) :
                /\ self.steps[i][1] >= 0
                /\ self.steps[i][1] < 600
                /\ self.steps[i][2] >= 0
                /\ self.steps[i][3] > 0
    /\ shape = "spike" =>
          /\ {<<self.spikes[i][1], self.spikes[i][1] + self.spikes[i][2]>> :
                  i \in 1..Len(self.spikes)}
                = {<<60, 90>>, <<180, 210>>, <<300, 330>>, <<420, 450>>}
          /\ \A i, j \in 1..Len(self.spikes) :
                i < j =>
                    self.spikes[i][1] + self.spikes[i][2] <= self.spikes[j][1]
          /\ \A i \in 1..Len(self.spikes) :
                /\ self.spikes[i][1] >= 0
                /\ self.spikes[i][1] + self.spikes[i][2] <= 600
                /\ self.spikes[i][3] >= 0
          /\ self.base_users >= 0
          /\ self.base_spawn_rate > 0
    /\ (pc = "reconcile" /\ directive # None) =>
          /\ directive[1] >= 0
          /\ directive[2] > 0
          /\ shape = "spike" => directive[2] \in {2, 20}
          /\ shape = "ramp" => directive[2] \in {10, 5, 8}

\* The spike shape ticked at the start of its last window.
C20_Witness ==
    /\ pc = "reconcile" /\ shape = "spike"
    /\ run_time = 420
    /\ directive = <<25, 20>>

\* ================================================== copies of the shapes
\* The four shape classes are defined a second time in locustfile.py and a
\* third time, one class each, in locustfile_constant.py, locustfile_step.py,
\* locustfile_spike.py and locustfile_ramp.py.  Each copy is written out here
\* from its own file; int() of the ramp expressions is PyInt of the exact
\* quotient, as in RampValue.

\* ----------------------------------------------------------- locustfile.py
locustfile_ConstantLoad_init ==
    [user_count |-> 50, spawn_rate |-> 5, test_duration |-> 600]

locustfile_ConstantLoad_tick(obj, t) ==
    IF t < obj.test_duration
    THEN <<obj.user_count, obj.spawn_rate>>
    ELSE None

locustfile_StepLoad_init ==
    [steps |-> << <<0, 100, 10>>, <<120, 200, 20>>, <<240, 100, 10>>,
                  <<360, 300, 30>>, <<480, 50, 5>> >>,
     test_duration |-> 600]

\* The for loop of this copy's tick over self.steps, from the i-th step on.
RECURSIVE locustfile_StepScan(_, _, _, _)
locustfile_StepScan(steps, i, t, current_step) ==
    IF i > Len(steps) THEN current_step
    ELSE IF t >= steps[i][1]
         THEN locustfile_StepScan(steps, i + 1, t, <<steps[i][2], steps[i][3]>>)
         ELSE current_step

locustfile_StepLoad_tick(obj, t) ==
    IF t >= obj.test_duration
    THEN None
    ELSE locustfile_StepScan(obj.steps, 1, t, <<50, 5>>)

locustfile_SpikeLoad_init ==
    [spikes |-> << <<60, 30, 15>>, <<180, 30, 50>>, <<300, 30, 100>>,
                   <<420, 30, 25>> >>,
     base_users |-> 10, base_spawn_rate |-> 2, test_duration |-> 600]

\* The for loop of this copy's tick over self.spikes, from the i-th spike on.
RECURSIVE locustfile_SpikeScan(_, _, _)
locustfile_SpikeScan(obj, i, t) ==
    IF i > Len(obj.spikes) THEN <<obj.base_users, obj.base_spawn_rate>>
    ELSE IF obj.spikes[i][1] <= t /\ t < obj.spikes[i][1] + obj.spikes[i][2]
         THEN <<obj.spikes[i][3], 20>>
         ELSE locustfile_SpikeScan(obj, i + 1, t)

locustfile_SpikeLoad_tick(obj, t) ==
    IF t >= obj.test_duration
    THEN None
    ELSE locustfile_SpikeScan(obj, 1, t)

locustfile_RampLoad_init ==
    [ramp_up_duration |-> 300, peak_duration |-> 120,
     ramp_down_duration |-> 180, min_users |-> 10, max_users |-> 150,
     test_duration |-> 600]

\* tick whose ramp-up phase ends before ramp_up_duration, run_time < 300.
locustfile_RampLoad_tick_lt(obj, t) ==
    IF t >= obj.test_duration THEN None
    ELSE IF t < obj.ramp_up_duration
    THEN <<PyInt(obj.min_users * obj.ramp_up_duration
                  + (obj.max_users - obj.min_users) * t,
                 obj.ramp_up_duration), 10>>
    ELSE IF t <= obj.ramp_up_duration + obj.peak_duration
    THEN <<obj.max_users, 5>>
    ELSE IF t <= obj.ramp_up_duration + obj.peak_duration + obj.ramp_down_duration
    THEN LET ramp_down_start == obj.ramp_up_duration + obj.peak_duration
         IN  <<PyInt(obj.max_users * obj.ramp_down_duration
                      - (obj.max_users - obj.min_users) * (t - ramp_down_start),
                     obj.ramp_down_duration), 8>>
    ELSE None

locustfile_RampLoad_tick(obj, t) ==
    IF t >= obj.test_duration THEN None
    ELSE IF t <= obj.ramp_up_duration
    THEN <<PyInt(obj.min_users * obj.ramp_up_duration
                  + (obj.max_users - obj.min_users) * t,
                 obj.ramp_up_duration), 10>>
    ELSE IF t <= obj.ramp_up_duration + obj.peak_duration
    THEN <<obj.max_users, 5>>
    ELSE IF t <= obj.ramp_up_duration + obj.peak_duration + obj.ramp_down_duration
    THEN LET ramp_down_start == obj.ramp_up_duration + obj.peak_duration
         IN  <<PyInt(obj.max_users * obj.ramp_down_duration
                      - (obj.max_users - obj.min_users) * (t - ramp_down_start),
                     obj.ramp_down_duration), 8>>
    ELSE None


\* -------------------------------------------------- locustfile_constant.py
locustfile_constant_ConstantLoad_init ==
    [user_count |-> 50, spawn_rate |-> 5, test_duration |-> 600]

locustfile_constant_ConstantLoad_tick(obj, t) ==
    IF t < obj.test_duration
    THEN <<obj.user_count, obj.spawn_rate>>
    ELSE None


\* ------------------------------------------------------ locustfile_step.py
locustfile_step_StepLoad_init ==
    [steps |-> << <<0, 100, 10>>, <<120, 200, 20>>, <<240, 100, 10>>,
                  <<360, 300, 30>>, <<480, 50, 5>> >>,
     test_duration |-> 600]

\* The for loop of this copy's tick over self.steps, from the i-th step on.
RECURSIVE locustfile_step_StepScan(_, _, _, _)
locustfile_step_StepScan(steps, i, t, current_step) ==
    IF i > Len(steps) THEN current_step
    ELSE IF t >= steps[i][1]
         THEN locustfile_step_StepScan(steps, i + 1, t, <<steps[i][2], steps[i][3]>>)
         ELSE current_step

locustfile_step_StepLoad_tick(obj, t) ==
    IF t >= obj.test_duration
    THEN None
    ELSE locustfile_step_StepScan(obj.steps, 1, t, <<50, 5>>)


\* ----------------------------------------------------- locustfile_spike.py
locustfile_spike_SpikeLoad_init ==
    [spikes |-> << <<60, 30, 15>>, <<180, 30, 50>>, <<300, 30, 100>>,
                   <<420, 30, 25>> >>,
     base_users |-> 10, base_spawn_rate |-> 2, test_duration |-> 600]

\* The for loop of this copy's tick over self.spikes, from the i-th spike on.
RECURSIVE locustfile_spike_SpikeScan(_, _, _)
locustfile_spike_SpikeScan(obj, i, t) ==
    IF i > Len(obj.spikes) THEN <<obj.base_users, obj.base_spawn_rate>>
    ELSE IF obj.spikes[i][1] <= t /\ t < obj.spikes[i][1] + obj.spikes[i][2]
         THEN <<obj.spikes[i][3], 20>>
         ELSE locustfile_spike_SpikeScan(obj, i + 1, t)

locustfile_spike_SpikeLoad_tick(obj, t) ==
    IF t >= obj.test_duration
    THEN None
    ELSE locustfile_spike_SpikeScan(obj, 1, t)


\* ------------------------------------------------------ locustfile_ramp.py
locustfile_ramp_RampLoad_init ==
    [ramp_up_duration |-> 300, peak_duration |-> 120,
     ramp_down_duration |-> 180, min_users |-> 10, max_users |-> 150,
     test_duration |-> 600]

locustfile_ramp_RampLoad_tick(obj, t) ==
    IF t >= obj.test_duration THEN None
    ELSE IF t <= obj.ramp_up_duration
    THEN <<PyInt(obj.min_users * obj.ramp_up_duration
                  + (obj.max_users - obj.min_users) * t,
                 obj.ramp_up_duration), 10>>
    ELSE IF t <= obj.ramp_up_duration + obj.peak_duration
    THEN <<obj.max_users, 5>>
    ELSE IF t <= obj.ramp_up_duration + obj.peak_duration + obj.ramp_down_duration
    THEN LET ramp_down_start == obj.ramp_up_duration + obj.peak_duration
         IN  <<PyInt(obj.max_users * obj.ramp_down_duration
                      - (obj.max_users - obj.min_users) * (t - ramp_down_start),
                     obj.ramp_down_duration), 8>>
    ELSE None

\* The shape object and tick() of class s as locustfile.py defines them.
locustfile_Construct(s) ==
    CASE s = "constant" -> locustfile_ConstantLoad_init
      [] s = "step"     -> locustfile_StepLoad_init
      [] s = "spike"    -> locustfile_SpikeLoad_init
      [] s = "ramp"     -> locustfile_RampLoad_init

locustfile_Tick(s, obj, t) ==
    CASE s = "constant" -> locustfile_ConstantLoad_tick(obj, t)
      [] s = "step"     -> locustfile_StepLoad_tick(obj, t)
      [] s = "spike"    -> locustfile_SpikeLoad_tick(obj, t)
      [] s = "ramp"     -> locustfile_RampLoad_tick(obj, t)

\* The shape object and tick() of class s as locustfile_<s>.py defines them.
pattern_Construct(s) ==
    CASE s = "constant" -> locustfile_constant_ConstantLoad_init
      [] s = "step"     -> locustfile_step_StepLoad_init
      [] s = "spike"    -> locustfile_spike_SpikeLoad_init
      [] s = "ramp"     -> locustfile_ramp_RampLoad_init

pattern_Tick(s, obj, t) ==
    CASE s = "constant" -> locustfile_constant_ConstantLoad_tick(obj, t)
      [] s = "step"     -> locustfile_step_StepLoad_tick(obj, t)
      [] s = "spike"    -> locustfile_spike_SpikeLoad_tick(obj, t)
      [] s = "ramp"     -> locustfile_ramp_RampLoad_tick(obj, t)

\* C21: the duplicated shape definitions are equivalent: whenever the loop
\* has ticked the shape of load_shapes.py at an elapsed time t, the class of
\* the same name in locustfile.py and the one in locustfile_<pattern>.py
\* construct the same attributes and their tick() returns the same result at
\* t (a directive or None), so the directive sequence of a run does not
\* depend on the file it is launched from.
C21_CopiesEquivalent ==
    pc = "reconcile" =>
        /\ locustfile_Construct(shape) = self
        /\ pattern_Construct(shape) = self
        /\ locustfile_Tick(shape, locustfile_Construct(shape), run_time)
              = directive
        /\ pattern_Tick(shape, pattern_Construct(shape), run_time)
              = directive

\* The ramp shape ticked at the last second of its ramp-up phase, where the
\* three copies all return the peak with the ramp-up spawn rate.
C21_Witness ==
    /\ pc = "reconcile" /\ shape = "ramp"
    /\ run_time = 300
    /\ directive = <<150, 10>>
    /\ locustfile_RampLoad_tick(locustfile_RampLoad_init, run_time) = directive
    /\ locustfile_ramp_RampLoad_tick(locustfile_ramp_RampLoad_init, run_time)
          = directive
====
